---- MODULE Spec2Model ----
(***************************************************************************)
(* URL shortener (src/main.go): in-memory cache, subnet rate limiter,      *)
(* expiry lifecycle and cleanup goroutines, over a MongoDB collection.     *)
(*                                                                         *)
(* Time is counted in whole hours.  time.Time{} (the zero time) is NoTime. *)
(* The collection has no unique index, so it is a bag of documents.        *)
(* Every request handler runs in its own goroutine (net/http); a handler   *)
(* is a sequence of steps, one per access to shared state (the mutex-      *)
(* protected rate-limit map, the unprotected cache map, the collection).   *)
(*                                                                         *)
(* Store calls time out after 5 to 30 seconds (context.WithTimeout), so a  *)
(* request or a cleanup cycle is short against the one-hour clock unit:    *)
(* the clock advances between requests, and each ticker period sees the    *)
(* cycle of the previous tick finished.                                    *)
(***************************************************************************)
EXTENDS Integers, Sequences, FiniteSets, Bags, TLC

(* ---------------- program constants (src/main.go) ---------------- *)
expiryDays == 365
maxURLsPerSubnet == 10
cooldownHours == 24
windowHours == 24
hoursPerDay == 24
NoTime == 0

ExpiryHours == expiryDays * hoursPerDay

(* ---------------- bounds of the exploration ---------------- *)
NThreads == 2
MaxInserts == 2

(* The store holds one creation less than the limit from the subnet of    *)
(* IPA, made in the hour before the start.                                *)
NRecent == maxURLsPerSubnet - 1

Threads == 1..NThreads

(* The process starts at StartTime; the store already holds documents     *)
(* written by earlier runs of the program.                                *)
StartTime == ExpiryHours + 2

(* Instants the clock visits: the start, one hour later, the instant the  *)
(* first window is 24 hours old, and one hour after that.                 *)
ClockGrid == {StartTime + o : o \in {0, 1, windowHours, windowHours + 1}}

(* The first three of them. *)
LinkGrid == {StartTime + o : o \in {0, 1, windowHours}}

(* ---------------- request inputs ---------------- *)
(* A client address: its text and the four octets net.ParseIP/To4 yield   *)
(* (<<>> when the text does not parse).                                   *)
IPA == [raw |-> "10.0.0.1", v4 |-> <<10, 0, 0, 1>>]
IPB == [raw |-> "10.0.1.7", v4 |-> <<10, 0, 1, 7>>]
ClientIPs == {IPA, IPB}

(* Request bodies of POST /api/shorten: ok = the JSON decodes. *)
Body(ok, url) == [ok |-> ok, url |-> url]

(* Create requests, as <<client address, body>>. *)
LinkRequests ==
    { <<IPA, Body(TRUE, "https://b")>>, <<IPA, Body(FALSE, "")>> }

RateRequests ==
    { <<IPA, Body(TRUE, "http://a")>>, <<IPA, Body(FALSE, "")>>,
      <<IPA, Body(TRUE, "ftp://x")>>, <<IPB, Body(TRUE, "https://b")>> }

(* Codes genCode returns in this exploration (all pass its letter and     *)
(* digit test); "old003" is the code of a document already stored.        *)
NewCodes == {"abc123", "old003"}

(* Codes visitors ask GET /{code} for. *)
RedirectCodes == {"abc123", "old003"}

(* getClientSubnet that keeps the first two octets only (a /16 key) *)
getClientSubnet_Slash16(ip) ==
    IF ip.v4 = <<>>
    THEN ip.raw
    ELSE ToString(ip.v4[1]) \o "." \o ToString(ip.v4[2]) \o ".0.0/16"

(* lines 126-152: the /24 key of an IPv4 address, the text itself when    *)
(* net.ParseIP fails.                                                     *)
getClientSubnet(ip) ==
    IF ip.v4 = <<>>
    THEN ip.raw
    ELSE ToString(ip.v4[1]) \o "." \o ToString(ip.v4[2]) \o "."
         \o ToString(ip.v4[3]) \o ".0/24"

Subnets == {getClientSubnet(ip) : ip \in ClientIPs}

HasPrefix(s, p) == Len(s) >= Len(p) /\ SubSeq(s, 1, Len(p)) = p

(* ---------------- documents ---------------- *)
URLData(code, original, created, expires, ip, subnet) ==
    [ShortCode |-> code, Original |-> original, CreatedAt |-> created,
     ExpiresAt |-> expires, CreatorIP |-> ip, CreatorSubnet |-> subnet]

NoDoc == URLData("", "", NoTime, NoTime, "", "")

CacheItem(original, expires) == [OriginalURL |-> original, ExpiresAt |-> expires]

RateLimitInfo(count, firstSeen, cooldown) ==
    [Count |-> count, FirstSeen |-> firstSeen, Cooldown |-> cooldown]

NoInfo == RateLimitInfo(0, NoTime, NoTime)

(* Documents of earlier runs: created by shortenHandler, so               *)
(* ExpiresAt = CreatedAt + 365 days and codes are pairwise distinct.      *)
OldDoc(code, created) ==
    URLData(code, "http://old", created, created + ExpiryHours, IPB.raw,
            getClientSubnet(IPB))

RecentCode(i) == "rec00" \o ToString(i)

RecentDoc(i) ==
    URLData(RecentCode(i), "http://a", StartTime, StartTime + ExpiryHours,
            IPA.raw, getClientSubnet(IPA))

(* One document expired before the start, one expires an hour after it. *)
LongExpired == OldDoc("old001", 1)
SoonExpired == OldDoc("old003", 3)

OldDocs == {LongExpired, SoonExpired}
RecentDocs == {RecentDoc(i) : i \in 1..NRecent}

(* The stores the process may find at start. *)
InitialStores == { SetToBag(OldDocs \cup RecentDocs) }

VARIABLES now, db, cache, rateLimitMap, th, mainpc, cleaner, rlTick,
          crashed, inserts, reached, cycle

vars == <<now, db, cache, rateLimitMap, th, mainpc, cleaner, rlTick,
          crashed, inserts, reached, cycle>>

(* ---------------- the store (MongoDB collection) ---------------- *)
(* The store holds a bag of documents; a filter is given as the set of    *)
(* the documents it selects.                                              *)
(* col.CountDocuments(filter) *)
CountDocuments(store, selected) ==
    BagCardinality([d \in DOMAIN store \cap selected |-> store[d]])

(* col.InsertOne(doc) *)
InsertOne(store, doc) == store (+) SetToBag({doc})

(* col.DeleteMany(filter) *)
DeleteMany(store, selected) == [d \in DOMAIN store \ selected |-> store[d]]

(* the expiry filter with the comparison turned around ($gt for $lt) *)
ExpiredBefore_Gt(store, t) == {d \in DOMAIN store : d.ExpiresAt > t}

(* the filter {expires_at: {$lt: t}} of lines 275 and 341 *)
ExpiredBefore(store, t) == {d \in DOMAIN store : d.ExpiresAt < t}

(* col.DeleteOne: removes one copy of the chosen matching document *)
DeleteOne(store, doc) == store (-) SetToBag({doc})

(* ---------------- time comparisons (time.Time methods) ---------------- *)
Before(a, b) == a < b
After(a, b) == a > b
IsZero(a) == a = NoTime

(* ---------------- rate limiter ---------------- *)
(* a window reset that keeps the cooldown *)
WindowReset_KeepCooldown(info, t) ==
    IF t - info.FirstSeen >= windowHours
    THEN RateLimitInfo(0, t, info.Cooldown)
    ELSE info

(* lines 163-167: the window restarts once it is 24 hours old *)
WindowReset(info, t) ==
    IF t - info.FirstSeen >= windowHours
    THEN RateLimitInfo(0, t, NoTime)
    ELSE info

(* lines 175-177: a cooldown that has passed is cleared *)
ClearCooldown(info, t) ==
    IF ~IsZero(info.Cooldown) /\ After(t, info.Cooldown)
    THEN [info EXCEPT !.Cooldown = NoTime]
    ELSE info

(* LimitTest that charges the quota as soon as it allows *)
LimitTest_Charging(info, t) ==
    IF info.Count >= maxURLsPerSubnet
    THEN [allowed |-> FALSE,
          info |-> [info EXCEPT !.Cooldown = t + cooldownHours]]
    ELSE [allowed |-> TRUE, info |-> [info EXCEPT !.Count = @ + 1]]

(* lines 180-186 and 213-218: the limit test *)
LimitTest(info, t) ==
    IF info.Count >= maxURLsPerSubnet
    THEN [allowed |-> FALSE,
          info |-> [info EXCEPT !.Cooldown = t + cooldownHours]]
    ELSE [allowed |-> TRUE, info |-> info]

(* lines 161-187: checkRateLimit on a subnet that is in the map *)
CheckExisting(info, t) ==
    LET i1 == WindowReset(info, t) IN
    IF ~IsZero(i1.Cooldown) /\ Before(t, i1.Cooldown)
    THEN [allowed |-> FALSE, info |-> i1]
    ELSE LimitTest(ClearCooldown(i1, t), t)

(* a seed count over every creation of the subnet, whatever its age *)
SeedCount_AllTime(store, subnet, t) ==
    CountDocuments(store, {d \in DOMAIN store : d.CreatorSubnet = subnet})

(* lines 194-199: creations of the subnet in the trailing 24 hours *)
SeedCount(store, subnet, t) ==
    CountDocuments(store, {d \in DOMAIN store :
                              /\ d.CreatorSubnet = subnet
                              /\ d.CreatedAt >= t - windowHours})

(* lines 205-218: checkRateLimit on a subnet that is not in the map *)
CheckNew(store, subnet, t) ==
    LimitTest(RateLimitInfo(SeedCount(store, subnet, t), t, NoTime), t)

(* incrementRateLimit that starts the cooldown one creation late *)
Incremented_Late(info, t) ==
    LET c == info.Count + 1 IN
    IF c > maxURLsPerSubnet
    THEN [info EXCEPT !.Count = c, !.Cooldown = t + cooldownHours]
    ELSE [info EXCEPT !.Count = c]

(* lines 225-231: incrementRateLimit on the map's entry *)
Incremented(info, t) ==
    LET c == info.Count + 1 IN
    IF c >= maxURLsPerSubnet
    THEN [info EXCEPT !.Count = c, !.Cooldown = t + cooldownHours]
    ELSE [info EXCEPT !.Count = c]

(* a sweep that spares the entries whose cooldown is still running *)
SweptRateMap_SpareCooldown(m, t) ==
    [s \in {x \in DOMAIN m : \/ ~(t - m[x].FirstSeen > windowHours)
                              \/ m[x].Cooldown > t} |-> m[s]]

(* lines 255-260: cleanupRateLimitMap *)
SweptRateMap(m, t) ==
    [s \in {x \in DOMAIN m : ~(t - m[x].FirstSeen > windowHours)} |-> m[s]]

(* ---------------- cache ---------------- *)
(* lines 353-358: the cache sweep of performCleanup *)
SweptCache(c, t) ==
    [k \in {x \in DOMAIN c : ~After(t, c[x].ExpiresAt)} |-> c[k]]

(* lines 295-315: loadActiveCache *)
LoadedCache(c, store, t) ==
    LET act == {d \in DOMAIN store : d.ExpiresAt > t}
        codes == {d.ShortCode : d \in act}
    IN [k \in DOMAIN c \cup codes |->
          IF k \in codes
          THEN LET d == CHOOSE x \in act : x.ShortCode = k
               IN CacheItem(d.Original, d.ExpiresAt)
          ELSE c[k]]

(* cache = map[string]CacheItem{} *)
EmptyCache == [k \in {} |-> CacheItem("", NoTime)]

(* rateLimitMap = make(map[string]*RateLimitInfo) *)
EmptyRateMap == [k \in {} |-> NoInfo]

(* cache[code] = item *)
CachePut(c, code, item) ==
    [k \in DOMAIN c \cup {code} |-> IF k = code THEN item ELSE c[k]]

(* delete(cache, code) *)
CacheDelete(c, code) == [k \in DOMAIN c \ {code} |-> c[k]]

(* ---------------- handler goroutines ---------------- *)
NoIP == [raw |-> "", v4 |-> <<>>]

(* rateInfo is a pointer into rateLimitMap: "live" while the map still     *)
(* holds the pointed-to struct, "gone" once cleanupRateLimitMap deleted it *)
(* (nobody writes the struct after that, so snap holds its last value).    *)
(* out is a text the handler has formatted for its answer.                 *)
IdleThread ==
    [pc |-> "idle", ip |-> NoIP, subnet |-> "", url |-> "", code |-> "",
     rateInfo |-> "nil", snap |-> NoInfo, doc |-> NoDoc, out |-> ""]

(* rateInfo dereferenced by thread t *)
Deref(t) ==
    IF th[t].rateInfo = "live" THEN rateLimitMap[th[t].subnet] ELSE th[t].snap

Init ==
    /\ now = StartTime
    /\ db \in InitialStores
    /\ cache = EmptyCache
    /\ rateLimitMap = EmptyRateMap
    /\ th = [t \in Threads |-> IdleThread]
    /\ mainpc = "initialCleanup"
    /\ cleaner = [pc |-> "wait", tick |-> FALSE]
    /\ rlTick = FALSE
    /\ crashed = FALSE
    /\ inserts = 0
    /\ reached = [s \in Subnets |-> NoInfo]
    /\ cycle = {}

Serving == mainpc = "serving" /\ ~crashed

(* ---------------- main(): start of the process ---------------- *)
(* lines 267-287: initialCleanup; on a failed DeleteMany it returns before *)
(* loadActiveCache.                                                        *)
InitialCleanup(ok) ==
    /\ mainpc = "initialCleanup"
    /\ IF ok
       THEN /\ db' = DeleteMany(db, ExpiredBefore(db, now))
            /\ mainpc' = "loadActiveCache"
            /\ cycle' = cycle \cup {"delete"}
       ELSE /\ mainpc' = "serving"
            /\ cycle' = cycle \cup {"deleteFailed"}
            /\ UNCHANGED db
    /\ UNCHANGED <<now, cache, rateLimitMap, th, cleaner, rlTick, crashed,
                   inserts, reached>>

(* lines 289-318: loadActiveCache, then the tickers and the server start *)
LoadActiveCache(ok) ==
    /\ mainpc = "loadActiveCache"
    /\ cache' = IF ok THEN LoadedCache(cache, db, now) ELSE cache
    /\ mainpc' = "serving"
    /\ UNCHANGED <<now, db, rateLimitMap, th, cleaner, rlTick, crashed,
                   inserts, reached, cycle>>

(* ---------------- POST /api/shorten ---------------- *)
(* lines 427-432: checkRateLimit fails on the count query of a subnet     *)
(* that is not in the map (lines 196-203); the handler answers 500.       *)
ShortenCheckError(t, ip) ==
    /\ Serving
    /\ th[t].pc = "idle"
    /\ getClientSubnet(ip) \notin DOMAIN rateLimitMap
    /\ th' = [th EXCEPT ![t] = [IdleThread EXCEPT
                 !.pc = "error", !.ip = ip, !.subnet = getClientSubnet(ip)]]
    /\ UNCHANGED <<now, db, cache, rateLimitMap, mainpc, cleaner, rlTick,
                   crashed, inserts, reached, cycle>>

(* lines 428-432: the error is logged, the answer is 500 and the handler  *)
(* returns.                                                               *)
ShortenError(t) ==
    /\ Serving
    /\ th[t].pc = "error"
    /\ th' = [th EXCEPT ![t] = IdleThread]
    /\ UNCHANGED <<now, db, cache, rateLimitMap, mainpc, cleaner, rlTick,
                   crashed, inserts, reached, cycle>>

(* checkRateLimit(subnet), lines 154-219, under rateLimitMutex *)
checkRateLimit(subnet) ==
    IF subnet \in DOMAIN rateLimitMap
    THEN CheckExisting(rateLimitMap[subnet], now)
    ELSE CheckNew(db, subnet, now)

(* rateLimitMap[subnet] = info *)
MapPut(m, subnet, info) ==
    [k \in DOMAIN m \cup {subnet} |-> IF k = subnet THEN info ELSE m[k]]

(* lines 455-463: the body must decode and the URL start with "http" *)
ValidBody(body) == body.ok /\ HasPrefix(body.url, "http")

(* lines 423-463: classify, checkRateLimit, then decode and validate.     *)
(* Denied: the 429 answer follows.  Allowed with a bad body: answer 400.  *)
ShortenCheckUpTo(t, ip, body, bound) ==
    LET subnet == getClientSubnet(ip)
        r == checkRateLimit(subnet)
    IN
    /\ Serving
    /\ th[t].pc = "idle"
    /\ rateLimitMap' = MapPut(rateLimitMap, subnet, r.info)
    /\ IF ~r.allowed
       THEN /\ th' = [th EXCEPT ![t] = [IdleThread EXCEPT
                        !.pc = "denied", !.ip = ip, !.subnet = subnet,
                        !.rateInfo = "live"]]
            /\ UNCHANGED inserts
       ELSE IF ~ValidBody(body)
       THEN UNCHANGED <<th, inserts>>
       ELSE /\ inserts < bound
            /\ inserts' = inserts + 1
            /\ th' = [th EXCEPT ![t] = [IdleThread EXCEPT
                        !.pc = "insert", !.ip = ip, !.subnet = subnet,
                        !.url = body.url, !.rateInfo = "live"]]
    /\ UNCHANGED <<now, db, cache, mainpc, cleaner, rlTick, crashed, reached,
                   cycle>>

(* The same, with at most MaxInserts creations in a behaviour. *)
ShortenCheck(t, ip, body) == ShortenCheckUpTo(t, ip, body, MaxInserts)

(* lines 434-450: the 429 answer; it reads rateInfo.Cooldown without the  *)
(* lock.                                                                  *)
ShortenDenied(t) ==
    /\ Serving
    /\ th[t].pc = "denied"
    /\ th' = [th EXCEPT ![t] = IdleThread]
    /\ UNCHANGED <<now, db, cache, rateLimitMap, mainpc, cleaner, rlTick,
                   crashed, inserts, reached, cycle>>

(* the document of a create whose expiry adds expiryDays hours *)
NewDoc_Hours(t, code) ==
    URLData(code, th[t].url, now, now + expiryDays, th[t].ip.raw,
            th[t].subnet)

(* lines 465-476: the document of a create *)
NewDoc(t, code) ==
    URLData(code, th[t].url, now, now + ExpiryHours, th[t].ip.raw,
            th[t].subnet)

(* lines 465-486: genCode, build the document, InsertOne; on its error    *)
(* the handler answers 500.                                               *)
ShortenInsert(t, code, ok) ==
    /\ Serving
    /\ th[t].pc = "insert"
    /\ IF ok
       THEN /\ db' = InsertOne(db, NewDoc(t, code))
            /\ th' = [th EXCEPT ![t].pc = "cachew", ![t].code = code,
                                 ![t].doc = NewDoc(t, code)]
       ELSE /\ th' = [th EXCEPT ![t] = IdleThread]
            /\ UNCHANGED db
    /\ UNCHANGED <<now, cache, rateLimitMap, mainpc, cleaner, rlTick,
                   crashed, inserts, reached, cycle>>

(* line 488: cache[code] = CacheItem{body.URL, exp}, no lock *)
ShortenCacheWrite(t) ==
    /\ Serving
    /\ th[t].pc = "cachew"
    /\ cache' = CachePut(cache, th[t].code,
                         CacheItem(th[t].url, now + ExpiryHours))
    /\ th' = [th EXCEPT ![t].pc = "incr"]
    /\ UNCHANGED <<now, db, rateLimitMap, mainpc, cleaner, rlTick, crashed,
                   inserts, reached, cycle>>

(* incrementRateLimit(subnet), lines 221-233, under rateLimitMutex *)
incrementRateLimit(subnet) ==
    IF subnet \in DOMAIN rateLimitMap
    THEN [rateLimitMap EXCEPT ![subnet] = Incremented(@, now)]
    ELSE rateLimitMap

(* line 491.  reached remembers, per subnet, the rate state left by the   *)
(* latest creation that brought the count to the limit (its window start  *)
(* and the cooldown it set); NoInfo before any did.                       *)
ShortenIncrement(t) ==
    LET s == th[t].subnet IN
    /\ Serving
    /\ th[t].pc = "incr"
    /\ rateLimitMap' = incrementRateLimit(s)
    /\ reached' = IF s \in DOMAIN rateLimitMap
                     /\ rateLimitMap'[s].Count >= maxURLsPerSubnet
                  THEN [reached EXCEPT ![s] = rateLimitMap'[s]]
                  ELSE reached
    /\ th' = [th EXCEPT ![t].pc = "respond"]
    /\ UNCHANGED <<now, db, cache, mainpc, cleaner, rlTick, crashed, inserts,
                   cycle>>

(* lines 499-503: remaining quota, read through rateInfo without the lock *)
Remaining(info) ==
    LET r == maxURLsPerSubnet - info.Count - 1 IN IF r < 0 THEN 0 ELSE r

(* lines 493-524: the 200 answer, with rate_limit.remaining =             *)
(* Remaining(Deref(t)).                                                   *)
ShortenRespond(t) ==
    /\ Serving
    /\ th[t].pc = "respond"
    /\ th' = [th EXCEPT ![t] = IdleThread]
    /\ UNCHANGED <<now, db, cache, rateLimitMap, mainpc, cleaner, rlTick,
                   crashed, inserts, reached, cycle>>

(* ---------------- GET /{code} ---------------- *)
(* lines 384-395: mainHandler hands a six-character code to redirectHandler *)
RedirectStart(t, code) ==
    /\ Serving
    /\ th[t].pc = "idle"
    /\ th' = [th EXCEPT ![t] = [IdleThread EXCEPT !.pc = "lookup",
                                                  !.code = code]]
    /\ UNCHANGED <<now, db, cache, rateLimitMap, mainpc, cleaner, rlTick,
                   crashed, inserts, reached, cycle>>

(* lines 531 and 546: a link is served while now.Before(ExpiresAt) *)
Live(t, expires) == Before(t, expires)

(* line 530-531: the cache answers the redirect *)
CacheHit(code) == code \in DOMAIN cache /\ Live(now, cache[code].ExpiresAt)

(* lines 528-537: cache lookup, no lock: a live hit answers 302 to        *)
(* cache[code].OriginalURL, an expired hit is deleted.                    *)
RedirectLookup(t) ==
    LET code == th[t].code IN
    /\ Serving
    /\ th[t].pc = "lookup"
    /\ IF CacheHit(code)
       THEN /\ th' = [th EXCEPT ![t] = IdleThread]
            /\ UNCHANGED cache
       ELSE /\ cache' = CacheDelete(cache, code)
            /\ th' = [th EXCEPT ![t].pc = "find"]
    /\ UNCHANGED <<now, db, rateLimitMap, mainpc, cleaner, rlTick, crashed,
                   inserts, reached, cycle>>

(* col.FindOne({short_code: code}): the documents it may return *)
FindOne(store, code) == {d \in DOMAIN store : d.ShortCode = code}

(* lines 539-555: FindOne fails (store error) or finds no document: the   *)
(* answer is 404.                                                         *)
RedirectFindNone(t, err) ==
    /\ Serving
    /\ th[t].pc = "find"
    /\ err \/ FindOne(db, th[t].code) = {}
    /\ th' = [th EXCEPT ![t] = IdleThread]
    /\ UNCHANGED <<now, db, cache, rateLimitMap, mainpc, cleaner, rlTick,
                   crashed, inserts, reached, cycle>>

(* lines 543-552: FindOne decodes a document u *)
RedirectFind(t, u) ==
    /\ Serving
    /\ th[t].pc = "find"
    /\ u \in FindOne(db, th[t].code)
    /\ th' = [th EXCEPT ![t].pc = IF Live(now, u.ExpiresAt)
                                  THEN "backfill" ELSE "delete",
                        ![t].doc = u]
    /\ UNCHANGED <<now, db, cache, rateLimitMap, mainpc, cleaner, rlTick,
                   crashed, inserts, reached, cycle>>

(* lines 547-549: backfill the cache, no lock, and answer 302 to          *)
(* u.Original.                                                            *)
RedirectBackfill(t) ==
    LET u == th[t].doc IN
    /\ Serving
    /\ th[t].pc = "backfill"
    /\ cache' = CachePut(cache, th[t].code, CacheItem(u.Original, u.ExpiresAt))
    /\ th' = [th EXCEPT ![t] = IdleThread]
    /\ UNCHANGED <<now, db, rateLimitMap, mainpc, cleaner, rlTick, crashed,
                   inserts, reached, cycle>>

(* lines 551-555: DeleteOne({short_code: code}), its error ignored, then  *)
(* answer 404.  victim is the document the store removes, NoDoc when the  *)
(* call fails or nothing matches any more.                                *)
RedirectDelete(t, victim) ==
    /\ Serving
    /\ th[t].pc = "delete"
    /\ \/ victim \in FindOne(db, th[t].code)
       \/ victim = NoDoc
    /\ db' = IF victim = NoDoc THEN db ELSE DeleteOne(db, victim)
    /\ th' = [th EXCEPT ![t] = IdleThread]
    /\ UNCHANGED <<now, cache, rateLimitMap, mainpc, cleaner, rlTick, crashed,
                   inserts, reached, cycle>>

(* ---------------- cleanup goroutines ---------------- *)
(* performCleanup that goes on to the cache sweep after a failed delete *)
CleanupDelete_Continue(ok) ==
    /\ Serving
    /\ cleaner.pc = "wait"
    /\ cleaner.tick
    /\ db' = IF ok THEN DeleteMany(db, ExpiredBefore(db, now)) ELSE db
    /\ cleaner' = [pc |-> "sweep", tick |-> FALSE]
    /\ cycle' = cycle \cup {IF ok THEN "delete" ELSE "deleteFailed"}
    /\ UNCHANGED <<now, cache, rateLimitMap, th, mainpc, rlTick, crashed,
                   inserts, reached>>

(* lines 323-348: a tick starts performCleanup; DeleteMany of the expired *)
(* documents; on its error performCleanup returns.  cycle holds the       *)
(* cleanup steps taken in the current cycle: since the process started,   *)
(* or since the tickers last fired.                                       *)
CleanupDelete(ok) ==
    /\ Serving
    /\ cleaner.pc = "wait"
    /\ cleaner.tick
    /\ IF ok
       THEN /\ db' = DeleteMany(db, ExpiredBefore(db, now))
            /\ cleaner' = [pc |-> "sweep", tick |-> FALSE]
            /\ cycle' = cycle \cup {"delete"}
       ELSE /\ cleaner' = [pc |-> "wait", tick |-> FALSE]
            /\ cycle' = cycle \cup {"deleteFailed"}
            /\ UNCHANGED db
    /\ UNCHANGED <<now, cache, rateLimitMap, th, mainpc, rlTick, crashed,
                   inserts, reached>>

(* lines 352-363: the cache sweep, no lock *)
CleanupSweep ==
    /\ Serving
    /\ cleaner.pc = "sweep"
    /\ cache' = SweptCache(cache, now)
    /\ cleaner' = [cleaner EXCEPT !.pc = "wait"]
    /\ cycle' = cycle \cup {"cacheSweep"}
    /\ UNCHANGED <<now, db, rateLimitMap, th, mainpc, rlTick, crashed,
                   inserts, reached>>

(* lines 238-265: a tick of the second ticker runs cleanupRateLimitMap    *)
(* under rateLimitMutex; a handler's rateInfo keeps the deleted struct.   *)
CleanupRateLimitMap ==
    LET m == SweptRateMap(rateLimitMap, now) IN
    /\ Serving
    /\ rlTick
    /\ rlTick' = FALSE
    /\ rateLimitMap' = m
    /\ th' = [t \in Threads |->
                IF th[t].rateInfo = "live" /\ th[t].subnet \notin DOMAIN m
                THEN [th[t] EXCEPT !.rateInfo = "gone",
                                   !.snap = rateLimitMap[th[t].subnet]]
                ELSE th[t]]
    /\ cycle' = cycle \cup {"rateSweep"}
    /\ UNCHANGED <<now, db, cache, mainpc, cleaner, crashed, inserts,
                   reached>>

(* ---------------- the clock and the tickers ---------------- *)
Quiet ==
    /\ \A t \in Threads : th[t].pc = "idle"
    /\ cleaner.pc = "wait" /\ ~cleaner.tick /\ ~rlTick

(* lines 236 and 321: time passes to a later instant and both one-hour    *)
(* tickers have fired.                                                    *)
Advance(t) ==
    /\ Serving
    /\ Quiet
    /\ t > now
    /\ now' = t
    /\ cleaner' = [cleaner EXCEPT !.tick = TRUE]
    /\ rlTick' = TRUE
    /\ cycle' = {}
    /\ UNCHANGED <<db, cache, rateLimitMap, th, mainpc, crashed, inserts,
                   reached>>

(* ---------------- unsynchronised accesses to the cache map ---------------- *)
(* The access to cache that the next statement of thread t makes. *)
CacheAccess(t) ==
    CASE th[t].pc \in {"cachew", "backfill"} -> "write"
      [] th[t].pc = "lookup" ->
            IF th[t].code \in DOMAIN cache /\ ~CacheHit(th[t].code)
            THEN "write" ELSE "read"
      [] th[t].pc \in {"list", "stats", "health"} -> "read"
      [] OTHER -> "none"

(* The access to cache that the next statement of performCleanup makes. *)
CleanerAccess ==
    IF cleaner.pc = "sweep"
    THEN IF SweptCache(cache, now) # cache THEN "write" ELSE "read"
    ELSE "none"

(* Two goroutines are in the map at once and one of them writes. *)
CacheRace ==
    \/ \E t, u \in Threads :
          t # u /\ CacheAccess(t) = "write" /\ CacheAccess(u) # "none"
    \/ \E t \in Threads :
          \/ CacheAccess(t) = "write" /\ CleanerAccess # "none"
          \/ CacheAccess(t) # "none" /\ CleanerAccess = "write"

(* The Go runtime may detect the concurrent map access and abort the      *)
(* process ("fatal error: concurrent map writes").                        *)
Crash ==
    /\ Serving
    /\ CacheRace
    /\ crashed' = TRUE
    /\ UNCHANGED <<now, db, cache, rateLimitMap, th, mainpc, cleaner, rlTick,
                   inserts, reached, cycle>>

(* ---------------- specifications ---------------- *)
Startup ==
    \/ \E ok \in BOOLEAN : InitialCleanup(ok)
    \/ \E ok \in BOOLEAN : LoadActiveCache(ok)

Shorten(t, reqs, codes) ==
    \/ \E ip \in {rq[1] : rq \in reqs} : ShortenCheckError(t, ip)
    \/ ShortenError(t)
    \/ \E rq \in reqs : ShortenCheck(t, rq[1], rq[2])
    \/ ShortenDenied(t)
    \/ \E code \in codes, ok \in BOOLEAN : ShortenInsert(t, code, ok)
    \/ ShortenCacheWrite(t)
    \/ ShortenIncrement(t)
    \/ ShortenRespond(t)

Redirect(t, codes) ==
    \/ \E code \in codes : RedirectStart(t, code)
    \/ RedirectLookup(t)
    \/ \E err \in BOOLEAN : RedirectFindNone(t, err)
    \/ \E u \in DOMAIN db : RedirectFind(t, u)
    \/ RedirectBackfill(t)
    \/ \E victim \in DOMAIN db \cup {NoDoc} : RedirectDelete(t, victim)

PerformCleanup ==
    \/ \E ok \in BOOLEAN : CleanupDelete(ok)
    \/ CleanupSweep

(* The whole program. *)
Next ==
    \/ Startup
    \/ \E t \in Threads : Shorten(t, LinkRequests, NewCodes)
    \/ \E t \in Threads : Redirect(t, RedirectCodes)
    \/ PerformCleanup
    \/ CleanupRateLimitMap
    \/ \E t \in LinkGrid : Advance(t)
    \/ Crash

Spec == Init /\ [][Next]_vars

(* The whole program with requests served one at a time: the startup,    *)
(* the two cleanup goroutines and a single handler goroutine.             *)
NextSerial ==
    \/ Startup
    \/ Shorten(1, LinkRequests, NewCodes)
    \/ Redirect(1, RedirectCodes)
    \/ PerformCleanup
    \/ CleanupRateLimitMap
    \/ \E t \in LinkGrid : Advance(t)
    \/ Crash

SpecSerial == Init /\ [][NextSerial]_vars

(* The create path and the rate limiter alone, from the state in which    *)
(* the server starts to serve after a start without store errors.        *)
InitServing ==
    /\ now = StartTime
    /\ \E s \in InitialStores :
          LET d == DeleteMany(s, ExpiredBefore(s, StartTime)) IN
          /\ db = d
          /\ cache = LoadedCache(EmptyCache, d, StartTime)
    /\ rateLimitMap = EmptyRateMap
    /\ th = [t \in Threads |-> IdleThread]
    /\ mainpc = "serving"
    /\ cleaner = [pc |-> "wait", tick |-> FALSE]
    /\ rlTick = FALSE
    /\ crashed = FALSE
    /\ inserts = 0
    /\ reached = [s \in Subnets |-> NoInfo]
    /\ cycle = {"delete"}

RateCodes == {"abc123"}

NextRate ==
    \/ \E t \in Threads : Shorten(t, RateRequests, RateCodes)
    \/ PerformCleanup
    \/ CleanupRateLimitMap
    \/ \E t \in ClockGrid : Advance(t)
    \/ Crash

SpecRate == InitServing /\ [][NextRate]_vars

(* ================= properties ================= *)
SubnetA == getClientSubnet(IPA)

(* A create attempt arriving now from subnet s is admitted by the limiter. *)
Admits(s) == Serving /\ checkRateLimit(s).allowed

(* Some creation has brought the count of s to the limit. *)
LimitReached(s) == reached[s] # NoInfo

(* C1: once max-per-subnet creations are committed in a window, *)
(* every later create attempt of the subnet is denied at every time       *)
(* before the cooldown set by the limit-reaching creation has elapsed.    *)
C1_DeniedUntilCooldown ==
    \A s \in Subnets :
        LimitReached(s) /\ now < reached[s].Cooldown => ~Admits(s)

(* C2: under every interleaving of concurrent creates, the      *)
(* number of creations admitted for a subnet in one window never exceeds  *)
(* max-per-subnet.                                                        *)
C2_NeverOverLimit ==
    \A s \in DOMAIN rateLimitMap : rateLimitMap[s].Count <= maxURLsPerSubnet

(* C3: the quota is charged only by the commit of a create that was       *)
(* persisted and cached: the count of a subnet grows only in the          *)
(* incrementRateLimit step of such a request, and by exactly one; the     *)
(* check itself, a denial, a validation failure and a failed insert       *)
(* leave it as it was.                                                    *)
C3_ChargedOnlyOnCommit ==
    [][\A s \in DOMAIN rateLimitMap \cap DOMAIN rateLimitMap' :
          rateLimitMap'[s].Count > rateLimitMap[s].Count
          => /\ rateLimitMap'[s].Count = rateLimitMap[s].Count + 1
             /\ \E t \in Threads :
                   /\ th[t].pc = "incr" /\ th'[t].pc = "respond"
                   /\ th[t].subnet = s
                   /\ \E d \in DOMAIN db : d.ShortCode = th[t].code
                                           /\ d.CreatorSubnet = s]_vars

(* C3 witness: a request was admitted by checkRateLimit and its insert   *)
(* then failed; the count is still the seeded one.                        *)
C3_Witness ==
    /\ inserts = 1
    /\ \A t \in Threads : th[t].pc = "idle"
    /\ \A d \in DOMAIN db : d.CreatedAt <= StartTime /\ db[d] = 1
    /\ now > StartTime
    /\ SubnetA \in DOMAIN rateLimitMap
    /\ rateLimitMap[SubnetA].Count = NRecent
    /\ rateLimitMap[SubnetA].FirstSeen = StartTime

(* The read of a RateLimitInfo field thread t makes next without holding  *)
(* rateLimitMutex (lines 438, 446, 500, 521).                             *)
UnlockedRateRead(t, s) ==
    /\ th[t].pc \in {"denied", "respond"}
    /\ th[t].rateInfo = "live"
    /\ th[t].subnet = s

(* The write of that struct thread u makes next under the mutex           *)
(* (line 226).                                                            *)
LockedRateWrite(u, s) ==
    /\ th[u].pc = "incr"
    /\ th[u].subnet = s
    /\ s \in DOMAIN rateLimitMap

(* C8: no read of a SubnetRateState field happens while         *)
(* another thread may write it.                                           *)
C8_NoUnlockedRead ==
    \A t, u \in Threads, s \in Subnets :
        t # u => ~(UnlockedRateRead(t, s) /\ LockedRateWrite(u, s))

(* The create that inserted document d has written the cache and          *)
(* committed, or d was created by an earlier run of the server.           *)
Created(d) ==
    /\ d \in DOMAIN db
    /\ ~\E t \in Threads :
          /\ th[t].pc \in {"cachew", "incr", "respond"}
          /\ th[t].code = d.ShortCode

(* The redirect of thread t is about to answer 302 from the cache. *)
AnswersFromCache(t) == th[t].pc = "lookup" /\ CacheHit(th[t].code)

(* The redirect of thread t is about to answer 302 from the store. *)
AnswersFromStore(t) == th[t].pc = "backfill"

(* C4: after a create succeeded with code c for URL u, every redirect of  *)
(* c before c's expiry answers 302 to u, on a cache hit and from the      *)
(* store alone; it never takes the 404 branch of an expired link.         *)
C4_RoundTrip ==
    \A t \in Threads : \A d \in DOMAIN db :
        Serving /\ Created(d) /\ now < d.ExpiresAt
                /\ th[t].code = d.ShortCode
        => /\ AnswersFromCache(t)
                 => cache[th[t].code].OriginalURL = d.Original
           /\ AnswersFromStore(t) => th[t].doc.Original = d.Original
           /\ th[t].pc # "delete"

(* C5: a redirect of a code whose ShortLink has expiry <= now never       *)
(* answers 302, from the cache or from the store.                         *)
C5_ExpiredNeverRedirects ==
    \A t \in Threads : \A d \in DOMAIN db :
        Serving /\ d.ExpiresAt <= now /\ th[t].code = d.ShortCode
        => ~AnswersFromCache(t) /\ ~AnswersFromStore(t)

(* C6: no two persisted ShortLinks share a short code, and a create never *)
(* overwrites the cache entry of another ShortLink.                       *)
C6_UniqueCodes ==
    /\ \A d \in DOMAIN db :
          /\ db[d] = 1
          /\ \A e \in DOMAIN db : e.ShortCode = d.ShortCode => e = d
    /\ \A t \in Threads :
          th[t].pc = "cachew" /\ th[t].code \in DOMAIN cache
          => cache[th[t].code]
                = CacheItem(th[t].url, now + ExpiryHours)

(* C7: no write to the cache map is in progress at the same time as       *)
(* another access to it by another handler or by the cleanup goroutine.   *)
C7_NoCacheRace == Serving => ~CacheRace

(* The periodic cleanup of the current interval has finished. *)
CycleOver ==
    /\ now > StartTime
    /\ cleaner.pc = "wait" /\ ~cleaner.tick /\ ~rlTick

(* C9: in every periodic cleanup cycle whose store delete failed, the     *)
(* cache sweep and the rate-limiter sweep of that cycle still run.        *)
C9_PhasesIndependent ==
    Serving /\ CycleOver /\ "deleteFailed" \in cycle
    => {"cacheSweep", "rateSweep"} \subseteq cycle

CacheHoldsActive(c, store, t) ==
    LET act == {d \in DOMAIN store : d.ExpiresAt > t} IN
    /\ DOMAIN c = {d.ShortCode : d \in act}
    /\ \A d \in act : c[d.ShortCode] = CacheItem(d.Original, d.ExpiresAt)

(* C11: when the startup completes (the server starts to serve), the      *)
(* cache holds an entry for every non-expired ShortLink of the store and  *)
(* for no other code, also when the startup delete failed.                *)
C11_CacheRebuiltAtStart ==
    [][mainpc # "serving" /\ mainpc' = "serving"
          => CacheHoldsActive(cache', db', now')]_vars

(* ---------------- liveness of the expiry cleanup ---------------- *)
(* The last hour of the exploration; it stands for every later hour.      *)
LastHour == StartTime + windowHours

(* lines 236-241 and 321-326: at every later hour both tickers fire       *)
(* again; no document of the exploration changes its status any more.     *)
TickAgain ==
    /\ Serving
    /\ Quiet
    /\ now = LastHour
    /\ cleaner' = [cleaner EXCEPT !.tick = TRUE]
    /\ rlTick' = TRUE
    /\ cycle' = {}
    /\ UNCHANGED <<now, db, cache, rateLimitMap, th, mainpc, crashed,
                   inserts, reached>>

(* The tickers fire: an hour passes. *)
Ticks == (\E t \in LinkGrid : Advance(t)) \/ TickAgain

(* A step of a request that handler t has begun. *)
Handle(t) ==
    \/ ShortenError(t)
    \/ ShortenDenied(t)
    \/ \E code \in NewCodes, ok \in BOOLEAN : ShortenInsert(t, code, ok)
    \/ ShortenCacheWrite(t)
    \/ ShortenIncrement(t)
    \/ ShortenRespond(t)
    \/ RedirectLookup(t)
    \/ \E err \in BOOLEAN : RedirectFindNone(t, err)
    \/ \E u \in DOMAIN db : RedirectFind(t, u)
    \/ RedirectBackfill(t)
    \/ \E victim \in DOMAIN db \cup {NoDoc} : RedirectDelete(t, victim)

(* The program while the process stays up, one request at a time. *)
NextLive ==
    \/ Startup
    \/ Shorten(1, LinkRequests, NewCodes)
    \/ Redirect(1, RedirectCodes)
    \/ PerformCleanup
    \/ CleanupRateLimitMap
    \/ \E t \in LinkGrid : Advance(t)
    \/ TickAgain

(* Scheduling: main runs its startup; a handler that began a request      *)
(* finishes it (every store call has a timeout); the cleanup goroutines   *)
(* run when their ticker fired; the hours keep passing; and the store     *)
(* delete of the cleanup succeeds again and again.                        *)
Fairness ==
    /\ WF_vars(Startup)
    /\ WF_vars(Handle(1))
    /\ WF_vars(PerformCleanup)
    /\ WF_vars(CleanupRateLimitMap)
    /\ SF_vars(Ticks)
    /\ SF_vars(CleanupDelete(TRUE))

SpecLive == Init /\ [][NextLive]_vars /\ Fairness

(* Document d is in the store and its expiry has passed. *)
ExpiredInStore(d) == d \in DOMAIN db /\ d.ExpiresAt < now

(* The cache holds an entry of code c whose expiry has passed. *)
ExpiredInCache(c) == c \in DOMAIN cache /\ cache[c].ExpiresAt < now

(* C12: while the cleanup keeps ticking and its store delete eventually   *)
(* succeeds, every ShortLink whose expiry has passed is eventually        *)
(* deleted from the store, and every cache entry whose expiry has passed  *)
(* is eventually deleted from the cache.                                  *)
C12_ExpiredEventuallyDeleted ==
    /\ \A d \in OldDocs : ExpiredInStore(d) ~> (d \notin DOMAIN db)
    /\ \A c \in RedirectCodes : ExpiredInCache(c) ~> ~ExpiredInCache(c)

(* C12 witness: in the last hour a cleanup cycle has deleted the expired  *)
(* documents from the store and swept the expired entry from the cache.   *)
C12_Witness ==
    /\ now = LastHour
    /\ {"delete", "cacheSweep"} \subseteq cycle
    /\ \A d \in OldDocs : d \notin DOMAIN db
    /\ SoonExpired.ShortCode \notin DOMAIN cache
    /\ \E d \in DOMAIN db : d.ExpiresAt > now

(* The create of thread t is about to send its 200 answer. *)
AnswersCreated(t) == Serving /\ th[t].pc = "respond"

(* max(0, max-per-subnet - count) *)
QuotaLeft(count) ==
    IF maxURLsPerSubnet - count < 0 THEN 0 ELSE maxURLsPerSubnet - count

(* C13: the success answer of a create carries rate_limit.remaining =     *)
(* max(0, max-per-subnet - the creations counted for the subnet in the    *)
(* current window, the one just made included); the first creation of a   *)
(* subnet without earlier creations reports 9.                            *)
C13_RemainingQuota ==
    \A t \in Threads :
        AnswersCreated(t)
        => Remaining(Deref(t)) = QuotaLeft(Deref(t).Count)

(* ---------------- getClientSubnet on many addresses ---------------- *)
(* Octet values of the addresses explored. *)
Octets == {0, 10, 255}

(* The text of the IPv4 address with octets o. *)
Dotted(o) ==
    ToString(o[1]) \o "." \o ToString(o[2]) \o "." \o ToString(o[3])
    \o "." \o ToString(o[4])

(* Client addresses: IPv4 addresses, and texts net.ParseIP rejects. *)
Addresses ==
    {[raw |-> Dotted(o), v4 |-> o] :
        o \in {<<a, b, c, d>> : a, b, c, d \in Octets}}
    \cup {[raw |-> "unknown", v4 |-> <<>>], [raw |-> "10.0.0", v4 |-> <<>>]}

(* The two handler goroutines whose requests are compared. *)
Pair == {1, 2}

(* Two requests have arrived, each from some address. *)
InitClassify ==
    /\ now = StartTime
    /\ db = EmptyBag
    /\ cache = EmptyCache
    /\ rateLimitMap = EmptyRateMap
    /\ \E a, b \in Addresses :
          th = [t \in Threads |->
                  IF t = 1 THEN [IdleThread EXCEPT !.ip = a]
                  ELSE IF t = 2 THEN [IdleThread EXCEPT !.ip = b]
                  ELSE IdleThread]
    /\ mainpc = "serving"
    /\ cleaner = [pc |-> "wait", tick |-> FALSE]
    /\ rlTick = FALSE
    /\ crashed = FALSE
    /\ inserts = 0
    /\ reached = [s \in Subnets |-> NoInfo]
    /\ cycle = {"delete"}

(* lines 423-424: clientIP := getClientIP(r); clientSubnet :=             *)
(* getClientSubnet(r)                                                     *)
Classify(t) ==
    /\ Serving
    /\ th[t].pc = "idle"
    /\ th[t].ip # NoIP
    /\ th' = [th EXCEPT ![t].subnet = getClientSubnet(th[t].ip),
                        ![t].pc = "classified"]
    /\ UNCHANGED <<now, db, cache, rateLimitMap, mainpc, cleaner, rlTick,
                   crashed, inserts, reached, cycle>>

NextClassify == \E t \in Pair : Classify(t)

SpecClassify == InitClassify /\ [][NextClassify]_vars

(* The first three octets of a parsed IPv4 address. *)
Prefix24(ip) == SubSeq(ip.v4, 1, 3)

(* C14: the same address always yields the same subnet key; two IPv4      *)
(* addresses yield the same key exactly when their first three octets     *)
(* are equal; an address that does not parse yields itself as the key.    *)
C14_ClassifyBySlash24 ==
    \A t, u \in Pair :
        th[t].pc = "classified" /\ th[u].pc = "classified"
        => /\ th[t].ip = th[u].ip => th[t].subnet = th[u].subnet
           /\ th[t].ip.v4 # <<>> /\ th[u].ip.v4 # <<>>
                 => (th[t].subnet = th[u].subnet
                        <=> Prefix24(th[t].ip) = Prefix24(th[u].ip))
           /\ th[t].ip.v4 = <<>> => th[t].subnet = th[t].ip.raw

(* C14 witness: two different addresses of one /24 were given the same    *)
(* key.                                                                   *)
C14_Witness ==
    /\ \A t \in Pair : th[t].pc = "classified" /\ th[t].ip.v4 # <<>>
    /\ th[1].ip # th[2].ip
    /\ Prefix24(th[1].ip) = Prefix24(th[2].ip)
    /\ th[1].subnet = th[2].subnet

(* ---------------- genCode and the route's code check ---------------- *)
(* A code is the sequence of its bytes: 'a' = 97 .. 'z' = 122,            *)
(* 'A' = 65 .. 'Z' = 90, '0' = 48 .. '9' = 57.                            *)
codeLen == 6

IsLetter(c) == (c >= 97 /\ c <= 122) \/ (c >= 65 /\ c <= 90)
IsDigit(c) == c >= 48 /\ c <= 57

(* Bytes of allChars that rand.Intn picks in this exploration: 'z', 'A',  *)
(* '0' and '9'.                                                           *)
GenChars == {122, 65, 48, 57}

(* lines 706-713 *)
containsLetter(s) == \E i \in 1..Len(s) : IsLetter(s[i])

(* lines 715-722 *)
containsDigit(s) == \E i \in 1..Len(s) : IsDigit(s[i])

(* the test of genCode that accepts any code with a letter *)
GenValid_LetterOnly(s) == containsLetter(s)

(* line 698: the test that ends the loop of genCode *)
GenValid(s) == containsLetter(s) /\ containsDigit(s)

(* lines 400-420: six bytes, all letters or digits, at least one letter   *)
(* and at least one digit.                                                *)
isAlphanumeric(s) ==
    /\ Len(s) = codeLen
    /\ \A i \in 1..Len(s) : IsLetter(s[i]) \/ IsDigit(s[i])
    /\ containsLetter(s)
    /\ containsDigit(s)

(* A create has reached its call genCode(6), line 465. *)
InitGen ==
    /\ now = StartTime
    /\ db = EmptyBag
    /\ cache = EmptyCache
    /\ rateLimitMap = EmptyRateMap
    /\ th = [t \in Threads |->
               IF t = 1 THEN [IdleThread EXCEPT !.pc = "gen", !.code = <<>>]
               ELSE IdleThread]
    /\ mainpc = "serving"
    /\ cleaner = [pc |-> "wait", tick |-> FALSE]
    /\ rlTick = FALSE
    /\ crashed = FALSE
    /\ inserts = 0
    /\ reached = [s \in Subnets |-> NoInfo]
    /\ cycle = {"delete"}

(* lines 690-695: n random bytes of allChars *)
GenDraw(t, b) ==
    /\ th[t].pc = "gen"
    /\ th' = [th EXCEPT ![t].code = b, ![t].pc = "genTest"]
    /\ UNCHANGED <<now, db, cache, rateLimitMap, mainpc, cleaner, rlTick,
                   crashed, inserts, reached, cycle>>

(* lines 697-703: return the code if it has a letter and a digit, else    *)
(* draw again.                                                            *)
GenTest(t) ==
    /\ th[t].pc = "genTest"
    /\ th' = [th EXCEPT ![t].pc = IF GenValid(th[t].code)
                                  THEN "generated" ELSE "gen"]
    /\ UNCHANGED <<now, db, cache, rateLimitMap, mainpc, cleaner, rlTick,
                   crashed, inserts, reached, cycle>>

(* lines 392-397: GET /{code} with the generated code: mainHandler hands  *)
(* it to redirectHandler, or answers 404.                                 *)
RouteGenerated(t) ==
    /\ th[t].pc = "generated"
    /\ th' = [th EXCEPT ![t].pc =
                 IF Len(th[t].code) = codeLen /\ isAlphanumeric(th[t].code)
                 THEN "routed" ELSE "notRouted"]
    /\ UNCHANGED <<now, db, cache, rateLimitMap, mainpc, cleaner, rlTick,
                   crashed, inserts, reached, cycle>>

NextGen ==
    \/ \E b \in [1..codeLen -> GenChars] : GenDraw(1, b)
    \/ GenTest(1)
    \/ RouteGenerated(1)

SpecGen == InitGen /\ [][NextGen]_vars

(* C15: every code genCode(6) returns has exactly 6 characters, all from  *)
(* [a-zA-Z0-9], at least one letter and at least one digit, and the       *)
(* redirect route accepts it.                                             *)
C15_GeneratedCodeValid ==
    \A t \in Threads :
        /\ th[t].pc \in {"generated", "routed", "notRouted"}
              => /\ Len(th[t].code) = 6
                 /\ \A i \in 1..6 :
                       IsLetter(th[t].code[i]) \/ IsDigit(th[t].code[i])
                 /\ \E i \in 1..6 : IsLetter(th[t].code[i])
                 /\ \E i \in 1..6 : IsDigit(th[t].code[i])
        /\ th[t].pc # "notRouted"

(* C15 witness: genCode returned "zzzzz9" and the route handed it to      *)
(* redirectHandler.                                                       *)
C15_Witness ==
    /\ th[1].pc = "routed"
    /\ th[1].code = <<122, 122, 122, 122, 122, 57>>

(* ---------------- formatDuration ---------------- *)
(* In this part durations and the clock count whole seconds.              *)
(* formatDuration that prints the whole hours next to the days *)
formatDuration_TotalHours(d) ==
    IF d < 0 THEN "0 seconds"
    ELSE LET days == (d \div 3600) \div 24
             hours == d \div 3600
             minutes == (d \div 60) % 60
             seconds == d % 60
         IN IF days > 0
            THEN ToString(days) \o " days " \o ToString(hours) \o " hours"
            ELSE IF hours > 0
            THEN ToString(hours) \o " hours " \o ToString(minutes)
                 \o " minutes"
            ELSE IF minutes > 0
            THEN ToString(minutes) \o " minutes " \o ToString(seconds)
                 \o " seconds"
            ELSE ToString(seconds) \o " seconds"

(* lines 724-741.  d.Hours(), d.Minutes() and d.Seconds() are float64;    *)
(* on whole seconds int(d.Hours()/24) is the integer quotient.            *)
formatDuration(d) ==
    IF d < 0 THEN "0 seconds"
    ELSE LET days == (d \div 3600) \div 24
             hours == (d \div 3600) % 24
             minutes == (d \div 60) % 60
             seconds == d % 60
         IN IF days > 0
            THEN ToString(days) \o " days " \o ToString(hours) \o " hours"
            ELSE IF hours > 0
            THEN ToString(hours) \o " hours " \o ToString(minutes)
                 \o " minutes"
            ELSE IF minutes > 0
            THEN ToString(minutes) \o " minutes " \o ToString(seconds)
                 \o " seconds"
            ELSE ToString(seconds) \o " seconds"

(* Durations explored: around the multiples of each unit. *)
Durations ==
    {u * m + o : u \in {1, 60, 3600, 86400},
                 m \in {0, 1, 2, 23, 24, 25, 59, 60, 365},
                 o \in {-1, 0, 1}}

(* A denied create is about to format the time left to its cooldown. *)
InitFormat ==
    /\ now = StartTime
    /\ db = EmptyBag
    /\ cache = EmptyCache
    /\ rateLimitMap = EmptyRateMap
    /\ \E d \in Durations :
          th = [t \in Threads |->
                  IF t = 1
                  THEN [IdleThread EXCEPT
                          !.pc = "denied", !.rateInfo = "gone",
                          !.snap = RateLimitInfo(maxURLsPerSubnet, now,
                                                 now + d)]
                  ELSE IdleThread]
    /\ mainpc = "serving"
    /\ cleaner = [pc |-> "wait", tick |-> FALSE]
    /\ rlTick = FALSE
    /\ crashed = FALSE
    /\ inserts = 0
    /\ reached = [s \in Subnets |-> NoInfo]
    /\ cycle = {"delete"}

(* lines 438-447: remainingTime := rateInfo.Cooldown.Sub(time.Now());     *)
(* "cooldown_remaining": formatDuration(remainingTime)                    *)
FormatCooldown(t) ==
    /\ Serving
    /\ th[t].pc = "denied"
    /\ th' = [th EXCEPT ![t].out = formatDuration(Deref(t).Cooldown - now),
                        ![t].pc = "formatted"]
    /\ UNCHANGED <<now, db, cache, rateLimitMap, mainpc, cleaner, rlTick,
                   crashed, inserts, reached, cycle>>

NextFormat == FormatCooldown(1)

SpecFormat == InitFormat /\ [][NextFormat]_vars

(* The text the claim gives for a duration of d whole seconds. *)
LargestUnitPair(d) ==
    CASE d < 0 -> "0 seconds"
      [] d >= 86400 ->
            ToString(d \div 86400) \o " days "
            \o ToString((d \div 3600) % 24) \o " hours"
      [] d >= 3600 /\ d < 86400 ->
            ToString((d \div 3600) % 24) \o " hours "
            \o ToString((d \div 60) % 60) \o " minutes"
      [] d >= 60 /\ d < 3600 ->
            ToString((d \div 60) % 60) \o " minutes "
            \o ToString(d % 60) \o " seconds"
      [] OTHER -> ToString(d % 60) \o " seconds"

(* C16: a whole-second duration d is rendered "0 seconds" when d < 0,     *)
(* else as its largest applicable unit pair (days and hours, hours and    *)
(* minutes, minutes and seconds, or seconds), the smaller unit taken      *)
(* modulo 24 or 60; 90000 seconds give "1 days 1 hours" and 365 days      *)
(* give "365 days 0 hours".                                               *)
C16_LargestUnitPair ==
    \A t \in Threads :
        th[t].pc = "formatted"
        => LET d == th[t].snap.Cooldown - now IN
           /\ th[t].out = LargestUnitPair(d)
           /\ d = 90000 => th[t].out = "1 days 1 hours"
           /\ d = 365 * 86400 => th[t].out = "365 days 0 hours"
           /\ d = 86399 => th[t].out = "23 hours 59 minutes"
           /\ d = 61 => th[t].out = "1 minutes 1 seconds"
           /\ d = -1 => th[t].out = "0 seconds"

(* C16 witness: 90000 seconds were rendered. *)
C16_Witness ==
    /\ th[1].pc = "formatted"
    /\ th[1].snap.Cooldown - now = 90000
    /\ th[1].out = "1 days 1 hours"

(* The create of thread t writes its cache entry in this step. *)
CreateCaches(t) == th[t].pc = "cachew" /\ th'[t].pc = "incr"

(* The redirect of thread t backfills the cache in this step. *)
RedirectCaches(t) == th[t].pc = "backfill" /\ th'[t].pc = "idle"

(* A document inserted in this step. *)
Persisted(d) == d \in DOMAIN db' /\ (d \notin DOMAIN db \/ db'[d] > db[d])

(* C17: every persisted ShortLink has expiry = creation + 365 days, and   *)
(* the cache entry a create inserts for it, or a redirect backfills,      *)
(* carries the expiry the ShortLink was persisted with.                   *)
C17_ExpiryIsCreationPlusYear ==
    [][/\ \A d \in DOMAIN db' : d.ExpiresAt = d.CreatedAt + 365 * 24
       /\ \A t \in Threads :
             th[t].pc = "insert" /\ th'[t].pc = "cachew"
             => Persisted(th'[t].doc)
       /\ \A t \in Threads :
             CreateCaches(t) \/ RedirectCaches(t)
             => /\ th[t].doc.ShortCode = th[t].code
                /\ th[t].doc.ExpiresAt = th[t].doc.CreatedAt + 365 * 24
                /\ cache'[th[t].code].ExpiresAt = th[t].doc.ExpiresAt]_vars

(* C17 witness: a create made after the start has inserted its document   *)
(* and its cache entry, both expiring 365 days after the creation.        *)
C17_Witness ==
    \E t \in Threads : \E d \in DOMAIN db :
        /\ th[t].pc = "incr"
        /\ now > StartTime
        /\ d = th[t].doc /\ d.CreatedAt = now
        /\ d.ExpiresAt = now + 365 * 24
        /\ cache[th[t].code].ExpiresAt = d.ExpiresAt

(* Thread t runs incrementRateLimit in this step on a subnet of the map. *)
Commits(t) ==
    /\ th[t].pc = "incr" /\ th'[t].pc = "respond"
    /\ th[t].subnet \in DOMAIN rateLimitMap

(* C18: commit on a subnet with in-memory state adds exactly one to its   *)
(* count and, when the new count reaches 10, sets cooldown = now + 24 h   *)
(* in the same step; a count grows only by the commit of a create whose   *)
(* ShortLink was persisted and put into the cache before.                 *)
C18_CommitAddsOne ==
    [][/\ \A t \in Threads :
             Commits(t)
             => LET old == rateLimitMap[th[t].subnet]
                    new == rateLimitMap'[th[t].subnet]
                IN /\ new.Count = old.Count + 1
                   /\ new.FirstSeen = old.FirstSeen
                   /\ new.Cooldown = IF new.Count >= 10 THEN now + 24
                                      ELSE old.Cooldown
                   /\ now' = now
                   /\ th[t].doc \in DOMAIN db
                   /\ th[t].doc.ShortCode = th[t].code
                   /\ th[t].doc.CreatorSubnet = th[t].subnet
                   /\ th[t].code \in DOMAIN cache
       /\ \A s \in DOMAIN rateLimitMap \cap DOMAIN rateLimitMap' :
             rateLimitMap'[s].Count > rateLimitMap[s].Count
             => \E t \in Threads : Commits(t) /\ th[t].subnet = s]_vars

(* C18 witness: a commit has brought the count of its subnet to the limit *)
(* and set the cooldown, with the ShortLink in the store and the cache.   *)
C18_Witness ==
    \E t \in Threads :
        /\ th[t].pc = "respond"
        /\ th[t].subnet \in DOMAIN rateLimitMap
        /\ rateLimitMap[th[t].subnet].Count = 10
        /\ rateLimitMap[th[t].subnet].Cooldown = now + 24
        /\ th[t].doc \in DOMAIN db
        /\ th[t].code \in DOMAIN cache

(* Instants at which a window can be older than 24 hours while a cooldown *)
(* set two hours into it is still running.                                *)
WindowGrid == {StartTime + o : o \in {0, 2, windowHours + 1, windowHours + 2}}

(* The requests of one subnet: a valid one, one whose body does not      *)
(* decode and one whose URL is refused.                                   *)
WindowRequests ==
    { <<IPA, Body(TRUE, "http://a")>>, <<IPA, Body(FALSE, "")>>,
      <<IPA, Body(TRUE, "ftp://x")>> }

NextWindow ==
    \/ \E t \in Threads : Shorten(t, WindowRequests, RateCodes)
    \/ PerformCleanup
    \/ CleanupRateLimitMap
    \/ \E t \in WindowGrid : Advance(t)
    \/ Crash

SpecWindow == InitServing /\ [][NextWindow]_vars

(* checkRateLimit runs in this step on subnet s, which is in the map: a   *)
(* handler leaves idle with that subnet, or the entry of s changes        *)
(* while every handler stays where it is (the request with a bad body).   *)
ChecksExisting(s) ==
    /\ s \in DOMAIN rateLimitMap
    /\ s \in DOMAIN rateLimitMap'
    /\ \/ \E t \in Threads : /\ th[t].pc = "idle" /\ th'[t].pc # "idle"
                             /\ th'[t].subnet = s
       \/ /\ rateLimitMap'[s] # rateLimitMap[s]
          /\ \A t \in Threads : th'[t].pc = th[t].pc

(* C19: checkAndReserve on a subnet whose in-memory window is older than  *)
(* 24 hours leaves count 0, window-start now and no cooldown, and the     *)
(* request is allowed, whatever count and cooldown the entry held.        *)
C19_OldWindowResets ==
    [][\A s \in Subnets :
          ChecksExisting(s) /\ now - rateLimitMap[s].FirstSeen > 24
          => /\ rateLimitMap'[s] = RateLimitInfo(0, now, NoTime)
             /\ \A t \in Threads :
                   th[t].pc = "idle" /\ th'[t].subnet = s
                   => th'[t].pc # "denied"]_vars

(* C19 witness: a create was admitted on a fresh window although the     *)
(* subnet had reached the limit in a window that began more than 24      *)
(* hours ago; the store holds creations of the trailing 24 hours, so the *)
(* entry was reset, not seeded.                                          *)
C19_Witness ==
    \E t \in Threads :
        LET s == th[t].subnet IN
        /\ th[t].pc = "insert"
        /\ s \in DOMAIN rateLimitMap
        /\ rateLimitMap[s] = RateLimitInfo(0, now, NoTime)
        /\ reached[s] # NoInfo
        /\ now - reached[s].FirstSeen > 24
        /\ reached[s].Cooldown > now
        /\ SeedCount(db, s, now) > 0

(* The store of a start after which a subnet has made 10 creations in    *)
(* the last 24 hours.                                                     *)
SeedStores ==
    { SetToBag(OldDocs \cup RecentDocs \cup {RecentDoc(NRecent + 1)}) }

(* Valid requests of two subnets: one seeds 10 creations, the other 0. *)
SeedRequests ==
    { <<IPA, Body(TRUE, "http://a")>>, <<IPB, Body(TRUE, "https://b")>> }

NextSeed ==
    \/ \E t \in Threads : Shorten(t, SeedRequests, RateCodes)
    \/ PerformCleanup
    \/ CleanupRateLimitMap
    \/ \E t \in ClockGrid : Advance(t)
    \/ Crash

InitSeed ==
    /\ now = StartTime
    /\ \E s \in SeedStores :
          LET d == DeleteMany(s, ExpiredBefore(s, StartTime)) IN
          /\ db = d
          /\ cache = LoadedCache(EmptyCache, d, StartTime)
    /\ rateLimitMap = EmptyRateMap
    /\ th = [t \in Threads |-> IdleThread]
    /\ mainpc = "serving"
    /\ cleaner = [pc |-> "wait", tick |-> FALSE]
    /\ rlTick = FALSE
    /\ crashed = FALSE
    /\ inserts = 0
    /\ reached = [s \in Subnets |-> NoInfo]
    /\ cycle = {"delete"}

SpecSeed == InitSeed /\ [][NextSeed]_vars

(* Persisted creations of subnet s made at or after instant t. *)
CreationsSince(s, t) ==
    LET ds == {d \in DOMAIN db : d.CreatorSubnet = s /\ d.CreatedAt >= t}
        RECURSIVE Sum(_)
        Sum(S) == IF S = {} THEN 0
                  ELSE LET d == CHOOSE x \in S : TRUE
                       IN db[d] + Sum(S \ {d})
    IN Sum(ds)

(* The handler of thread t gets the answer of checkRateLimit on s. *)
Checks(t, s) == th[t].pc = "idle" /\ th'[t].pc # "idle" /\ th'[t].subnet = s

(* C20: checkAndReserve on a subnet without in-memory state creates one   *)
(* state with count = persisted creations of the subnet in the trailing   *)
(* 24 hours, window-start = now and no cooldown, then denies and sets     *)
(* cooldown = now + 24 h when that count is >= 10 and allows otherwise;   *)
(* when the count query fails no state is created and the request ends    *)
(* with a backend error.                                                  *)
C20_ColdStartSeeding ==
    [][/\ \A s \in DOMAIN rateLimitMap' \ DOMAIN rateLimitMap :
             LET n == CreationsSince(s, now - 24) IN
             /\ DOMAIN rateLimitMap' = DOMAIN rateLimitMap \cup {s}
             /\ \A o \in DOMAIN rateLimitMap :
                   rateLimitMap'[o] = rateLimitMap[o]
             /\ rateLimitMap'[s].Count = n
             /\ rateLimitMap'[s].FirstSeen = now
             /\ rateLimitMap'[s].Cooldown = IF n >= 10 THEN now + 24
                                            ELSE NoTime
             /\ \A t \in Threads :
                   Checks(t, s) => (th'[t].pc = "denied" <=> n >= 10)
             /\ n >= 10 => \E t \in Threads : Checks(t, s)
       /\ \A t \in Threads :
             /\ th[t].pc = "idle" /\ th'[t].pc = "error"
                => /\ th'[t].subnet \notin DOMAIN rateLimitMap
                   /\ rateLimitMap' = rateLimitMap
                   /\ db' = db /\ cache' = cache
             /\ th[t].pc = "error"
                => /\ th'[t].pc \in {"error", "idle"}
                   /\ th'[t].pc = "idle"
                      => rateLimitMap' = rateLimitMap /\ db' = db]_vars

(* C20 witness: a request of a subnet that had no in-memory state was     *)
(* denied on the seeded count of 10 and holds a cooldown of 24 hours.     *)
C20_Witness ==
    \E t \in Threads :
        LET s == th[t].subnet IN
        /\ th[t].pc = "denied"
        /\ s \in DOMAIN rateLimitMap
        /\ rateLimitMap[s] = RateLimitInfo(10, now, now + 24)
        /\ reached[s] = NoInfo
        /\ CreationsSince(s, now - 24) = 10

(* cleanupRateLimitMap runs in this step. *)
RateSweeps == rlTick /\ ~rlTick'

(* C21: the Rate Limiter sweep at time now deletes exactly the entries    *)
(* whose window-start is more than 24 hours before now, whatever their    *)
(* cooldown, and leaves every other entry unchanged.                      *)
C21_SweepDeletesStale ==
    [][RateSweeps
       => /\ DOMAIN rateLimitMap' =
                {s \in DOMAIN rateLimitMap :
                    ~(now - rateLimitMap[s].FirstSeen > 24)}
          /\ \A s \in DOMAIN rateLimitMap' :
                rateLimitMap'[s] = rateLimitMap[s]]_vars

(* C21 witness: the sweep has deleted the entry of a subnet whose window  *)
(* began more than 24 hours ago while the cooldown set by its tenth       *)
(* creation was still in the future.                                      *)
C21_Witness ==
    \E s \in Subnets :
        /\ ~rlTick
        /\ "rateSweep" \in cycle
        /\ s \notin DOMAIN rateLimitMap
        /\ reached[s] # NoInfo
        /\ now - reached[s].FirstSeen > 24
        /\ reached[s].Cooldown > now

(* The cache sweep of performCleanup runs in this step. *)
CacheSweeps == cleaner.pc = "sweep" /\ cleaner'.pc = "wait"

(* The lookup of redirectHandler at instant t treats the entry as expired. *)
LookupExpired(item, t) == t >= item.ExpiresAt

(* C22: the Local Cache sweep at time now uses the expiry test of lookup  *)
(* (now >= expiry): after it no entry that lookup at that now treats as   *)
(* expired remains, and no unexpired entry is removed.                    *)
C22_SweepMatchesLookup ==
    [][CacheSweeps
       => /\ \A c \in DOMAIN cache' : ~LookupExpired(cache'[c], now)
          /\ \A c \in DOMAIN cache :
                ~LookupExpired(cache[c], now)
                => c \in DOMAIN cache' /\ cache'[c] = cache[c]]_vars

(* The redirect of thread t leaves pc p for pc q in this step. *)
RedirectMoves(t, p, q) == th[t].pc = p /\ th'[t].pc = q

(* C23: a redirect of code c that is not answered from the cache leaves   *)
(* no expired entry of c in the cache; when the store holds c unexpired   *)
(* the cache is backfilled with (destination, expiry) and the answer is   *)
(* 302; when c is found expired its record is deleted from the store and  *)
(* the answer is not-found; when c is absent the answer is not-found and  *)
(* store and cache are unchanged.                                         *)
C23_RedirectOnMiss ==
    [][\A t \in Threads :
          LET c == th[t].code
              u == th[t].doc
          IN
          /\ RedirectMoves(t, "lookup", "find")
             => /\ c \notin DOMAIN cache'
                /\ \A k \in DOMAIN cache \ {c} :
                      k \in DOMAIN cache' /\ cache'[k] = cache[k]
                /\ db' = db
          /\ RedirectMoves(t, "find", "backfill")
             => th'[t].doc \in FindOne(db, c) /\ now < th'[t].doc.ExpiresAt
          /\ RedirectMoves(t, "find", "delete")
             => th'[t].doc \in FindOne(db, c) /\ now >= th'[t].doc.ExpiresAt
          /\ RedirectMoves(t, "backfill", "idle")
             => /\ cache'[c] = CacheItem(u.Original, u.ExpiresAt)
                /\ db' = db
          /\ RedirectMoves(t, "delete", "idle")
             => u \notin DOMAIN db' /\ cache' = cache
          /\ RedirectMoves(t, "find", "idle")
             => db' = db /\ cache' = cache]_vars

(* ---------------- GET /api/list, /api/stats, /health ---------------- *)
(* lines 369-371: the routes of the three read-only handlers *)
ReadRoutes == {"list", "stats", "health"}

(* a list that keeps the entries expiring at this very instant *)
ActiveItems_NotAfter(c, t) ==
    [k \in {x \in DOMAIN c : ~After(t, c[x].ExpiresAt)} |-> c[k]]

(* lines 562-568: the items of listHandler *)
ActiveItems(c, t) ==
    [k \in {x \in DOMAIN c : Before(t, c[x].ExpiresAt)} |-> c[k]]

(* the mux hands the request to one of the three handlers *)
ReadStart(t, route) ==
    /\ Serving
    /\ th[t].pc = "idle"
    /\ th' = [th EXCEPT ![t] = [IdleThread EXCEPT !.pc = route]]
    /\ UNCHANGED <<now, db, cache, rateLimitMap, mainpc, cleaner, rlTick,
                   crashed, inserts, reached, cycle>>

(* lines 561-568: listHandler ranges over cache, no lock, and keeps the   *)
(* items with now.Before(item.ExpiresAt).                                 *)
ListHandler(t) ==
    /\ Serving
    /\ th[t].pc = "list"
    /\ th' = [th EXCEPT ![t].pc = "listed",
                        ![t].out = ActiveItems(cache, now)]
    /\ UNCHANGED <<now, db, cache, rateLimitMap, mainpc, cleaner, rlTick,
                   crashed, inserts, reached, cycle>>

(* lines 570-574: the items are encoded into the answer *)
ListRespond(t) ==
    /\ Serving
    /\ th[t].pc = "listed"
    /\ th' = [th EXCEPT ![t] = IdleThread]
    /\ UNCHANGED <<now, db, cache, rateLimitMap, mainpc, cleaner, rlTick,
                   crashed, inserts, reached, cycle>>

(* lines 580-591: statsHandler counts the live and the expired entries of *)
(* cache, no lock.                                                        *)
StatsCache(t) ==
    /\ Serving
    /\ th[t].pc = "stats"
    /\ th' = [th EXCEPT ![t].pc = "statsdb"]
    /\ UNCHANGED <<now, db, cache, rateLimitMap, mainpc, cleaner, rlTick,
                   crashed, inserts, reached, cycle>>

(* lines 593-663: the subnets are counted under RLock, then the store is  *)
(* asked for three counts; a count that fails is left out of the answer.  *)
StatsStore(t, ok) ==
    /\ Serving
    /\ th[t].pc = "statsdb"
    /\ th' = [th EXCEPT ![t] = IdleThread]
    /\ UNCHANGED <<now, db, cache, rateLimitMap, mainpc, cleaner, rlTick,
                   crashed, inserts, reached, cycle>>

(* lines 666-681: healthHandler reads len(rateLimitMap) under RLock and   *)
(* len(cache) without a lock.                                             *)
HealthHandler(t) ==
    /\ Serving
    /\ th[t].pc = "health"
    /\ th' = [th EXCEPT ![t] = IdleThread]
    /\ UNCHANGED <<now, db, cache, rateLimitMap, mainpc, cleaner, rlTick,
                   crashed, inserts, reached, cycle>>

Reads(t) ==
    \/ \E route \in ReadRoutes : ReadStart(t, route)
    \/ ListHandler(t)
    \/ ListRespond(t)
    \/ StatsCache(t)
    \/ \E ok \in BOOLEAN : StatsStore(t, ok)
    \/ HealthHandler(t)

(* The whole program with one handler goroutine that serves creates,      *)
(* redirects and the three read-only routes.                              *)
NextRead ==
    \/ Startup
    \/ Shorten(1, LinkRequests, NewCodes)
    \/ Redirect(1, RedirectCodes)
    \/ Reads(1)
    \/ PerformCleanup
    \/ CleanupRateLimitMap
    \/ \E t \in LinkGrid : Advance(t)
    \/ Crash

SpecRead == Init /\ [][NextRead]_vars

(* Thread t is in one of the three read-only handlers. *)
Reading(t) == th[t].pc \in {"list", "listed", "stats", "statsdb", "health"}

(* C24: List, Stats and Health never mutate state: every step of theirs   *)
(* leaves the Local Cache, expired entries included, the rate-limit map   *)
(* and the persistent store unchanged; and List returns exactly the cache *)
(* entries with now < expiry.                                             *)
C24_ReadsDoNotMutate ==
    [][\A t \in Threads :
          /\ (Reading(t) \/ Reading(t)') /\ th'[t] # th[t]
             => cache' = cache /\ rateLimitMap' = rateLimitMap /\ db' = db
          /\ th[t].pc = "list" /\ th'[t].pc = "listed"
             => /\ DOMAIN th'[t].out =
                      {c \in DOMAIN cache : now < cache[c].ExpiresAt}
                /\ \A c \in DOMAIN th'[t].out : th'[t].out[c] = cache[c]]_vars

(* C24 witness: List has answered without the entry that expires at this  *)
(* instant, and that entry is still in the cache.                         *)
C24_Witness ==
    \E t \in Threads : \E c \in DOMAIN cache :
        /\ th[t].pc = "listed"
        /\ now >= cache[c].ExpiresAt
        /\ c \notin DOMAIN th[t].out
        /\ DOMAIN th[t].out # {}

(* Creations a subnet makes within one window in the exploration below:   *)
(* as many as the limit allows.                                           *)
StaleInserts == maxURLsPerSubnet

(* Requests of a subnet without a creation in the 24 hours before the   *)
(* start.                                                                *)
StaleRequests ==
    { <<IPB, Body(FALSE, "")>>, <<IPB, Body(TRUE, "https://b")>> }

(* Later instants: two hours, and 25 hours, after the start. *)
StaleGrid == {StartTime + o : o \in {2, windowHours + 1}}

(* One handler goroutine serving creates of that subnet, and the two      *)
(* cleanup goroutines.                                                    *)
NextStale ==
    \/ ShortenCheckError(1, IPB)
    \/ ShortenError(1)
    \/ \E rq \in StaleRequests :
          ShortenCheckUpTo(1, rq[1], rq[2], StaleInserts)
    \/ ShortenDenied(1)
    \/ \E ok \in BOOLEAN : ShortenInsert(1, "abc123", ok)
    \/ ShortenCacheWrite(1)
    \/ ShortenIncrement(1)
    \/ ShortenRespond(1)
    \/ PerformCleanup
    \/ CleanupRateLimitMap
    \/ \E t \in StaleGrid : Advance(t)

SpecStale == InitServing /\ [][NextStale]_vars

(* The entries cleanupRateLimitMap would delete now. *)
StaleSubnets == DOMAIN rateLimitMap \ DOMAIN SweptRateMap(rateLimitMap, now)

(* C25: the Rate Limiter sweep is transparent to admission: whenever a    *)
(* subnet's entry is stale, the next checkAndReserve gives the same       *)
(* Allowed/Denied outcome on the entry (window reset) as it gives after   *)
(* the sweep deleted the entry (re-seeding from the store).               *)
C25_SweepTransparent ==
    \A s \in StaleSubnets :
        CheckExisting(rateLimitMap[s], now).allowed
           = CheckNew(db, s, now).allowed

(* C26: in every reachable state each unexpired entry of the Local Cache  *)
(* agrees with the persistent store: for a cached code c with             *)
(* now < expiry the store holds a ShortLink with code c, the same         *)
(* destination and the same expiry.                                       *)
C26_CacheAgreesWithStore ==
    \A c \in DOMAIN cache :
        now < cache[c].ExpiresAt
        => \E d \in DOMAIN db :
              /\ d.ShortCode = c
              /\ d.Original = cache[c].OriginalURL
              /\ d.ExpiresAt = cache[c].ExpiresAt

====
